---- MODULE Spec2Model ----
(***************************************************************************)
(* Model of casl-drizzle: the filter parser (DrizzleQueryParser), the      *)
(* in-memory interpreter (interpretDrizzleQuery) and the rule compiler     *)
(* accessibleBy(ability, action)[subjectType].                             *)
(*                                                                         *)
(* JavaScript values are tagged records, so that values of different       *)
(* JavaScript types are never compared as raw TLA+ values:                 *)
(*   [t |-> "num", n], [t |-> "str", s] (s a sequence of characters),      *)
(*   [t |-> "bool", b], [t |-> "null"], [t |-> "undef"],                   *)
(*   [t |-> "arr", a] (a sequence of values),                              *)
(*   [t |-> "obj", o] (a plain object: its entries in insertion order),    *)
(*   [t |-> "date", ms], [t |-> "inst", cls, o] (a class instance with     *)
(*   own enumerable entries o), [t |-> "fn", id] (a function).             *)
(***************************************************************************)
EXTENDS Integers, Sequences, FiniteSets, TLC

VARIABLES rules, access, query, record, tree, verdict, built

vars == <<rules, access, query, record, tree, verdict, built>>

(***************************************************************************)
(* JavaScript values                                                       *)
(***************************************************************************)
Num(n) == [t |-> "num", n |-> n]
Str(s) == [t |-> "str", s |-> s]
Bool(b) == [t |-> "bool", b |-> b]
Null == [t |-> "null"]
Undefined == [t |-> "undef"]
Arr(a) == [t |-> "arr", a |-> a]
Obj(o) == [t |-> "obj", o |-> o]
DateOf(ms) == [t |-> "date", ms |-> ms]
Inst(cls, o) == [t |-> "inst", cls |-> cls, o |-> o]
Fn(id) == [t |-> "fn", id |-> id]
NaN == [t |-> "nan"]
PositiveInfinity == [t |-> "inf"]
E(k, v) == [key |-> k, val |-> v]

\* typeof value === "object" && value !== null
IsObjectLike(v) == v.t \in {"arr", "obj", "date", "inst"}

IsArray(v) == v.t = "arr"

\* Object.keys / Object.entries of an object-like value, in insertion order.
Entries(v) ==
  CASE v.t = "obj" -> v.o
    [] v.t = "inst" -> v.o
    [] v.t = "arr" -> [i \in 1..Len(v.a) |-> E(ToString(i - 1), v.a[i])]
    [] OTHER -> <<>>

HasKey(entries, k) == \E i \in 1..Len(entries) : entries[i].key = k

\* obj[k]: the value stored under k, undefined when there is none.
Lookup(entries, k) ==
  IF HasKey(entries, k)
    THEN entries[CHOOSE i \in 1..Len(entries) : entries[i].key = k].val
    ELSE Undefined

\* obj[k] = v: an existing key keeps its position, a new key is appended.
SetKey(entries, k, v) ==
  IF HasKey(entries, k)
    THEN [i \in 1..Len(entries) |->
            IF entries[i].key = k THEN E(k, v) ELSE entries[i]]
    ELSE Append(entries, E(k, v))

RECURSIVE AssignAll(_, _)
\* Object.assign(target, source) on entry lists.
AssignAll(target, source) ==
  IF source = <<>> THEN target
  ELSE AssignAll(SetKey(target, Head(source).key, Head(source).val), Tail(source))

Reverse(s) == [i \in 1..Len(s) |-> s[Len(s) + 1 - i]]

(***************************************************************************)
(* normalizeDrizzleConditions                                              *)
(***************************************************************************)
\* key.startsWith("$") over the keys that occur in the model.
DollarKeys == {"$lt", "$lte", "$gt", "$gte", "$in", "$nin"}

\* key.substring(1) for a key that starts with "$".
Substring1(key) ==
  CASE key = "$lt" -> "lt"
    [] key = "$lte" -> "lte"
    [] key = "$gt" -> "gt"
    [] key = "$gte" -> "gte"
    [] key = "$in" -> "in"
    [] key = "$nin" -> "nin"
    [] OTHER -> key

RECURSIVE normalizeDrizzleConditions(_)
RECURSIVE NormalizeEntries(_, _)

\* The for loop over Object.entries(obj), writing into result.
NormalizeEntries(entries, result) ==
  IF entries = <<>> THEN result
  ELSE
    LET key == Head(entries).key
        value == Head(entries).val
        next ==
          IF key \in {"OR", "AND"}
            THEN SetKey(result, key, normalizeDrizzleConditions(value))
          ELSE IF key \in DollarKeys
            THEN SetKey(result, Substring1(key), normalizeDrizzleConditions(value))
          ELSE IF IsObjectLike(value) /\ ~IsArray(value)
            THEN SetKey(result, key, normalizeDrizzleConditions(value))
          ELSE SetKey(result, key, value)
    IN NormalizeEntries(Tail(entries), next)

normalizeDrizzleConditions(obj) ==
  IF ~IsObjectLike(obj) THEN obj
  ELSE IF IsArray(obj)
    THEN Arr([i \in 1..Len(obj.a) |-> normalizeDrizzleConditions(obj.a[i])])
  ELSE Obj(NormalizeEntries(Entries(obj), <<>>))

(***************************************************************************)
(* The policy: rules in declaration order.  A rule is                      *)
(* [action, subject, inverted, conditions]; conditions = Undefined when    *)
(* the rule was declared without conditions.                               *)
(***************************************************************************)
Rule(action, subject, inverted, conditions) ==
  [action |-> action, subject |-> subject, inverted |-> inverted,
   conditions |-> conditions]

\* !value for the values a rule's conditions can hold.
Falsy(v) == v.t \in {"undef", "null"}

\* A rule is relevant for (action, subjectType): "manage" stands for every
\* action and "all" for every subject type.
RuleMatches(rule, action, subjectType) ==
  /\ rule.action \in {action, "manage"}
  /\ rule.subject \in {subjectType, "all"}

RECURSIVE SelectRules(_, _, _)
SelectRules(rs, action, subjectType) ==
  IF rs = <<>> THEN <<>>
  ELSE IF RuleMatches(Head(rs), action, subjectType)
    THEN <<Head(rs)>> \o SelectRules(Tail(rs), action, subjectType)
  ELSE SelectRules(Tail(rs), action, subjectType)

\* A slip in the order: the relevant rules, the first declared first.
rulesFor_DeclarationOrder(ability, action, subjectType) ==
  SelectRules(ability, action, subjectType)

\* ability.rulesFor(action, subjectType): the relevant rules, the last
\* declared first.
rulesFor(ability, action, subjectType) ==
  Reverse(SelectRules(ability, action, subjectType))

\* The converter passed to rulesToQuery.
convert(rule) ==
  IF rule.inverted THEN Obj(<<E("NOT", rule.conditions)>>) ELSE rule.conditions

EmptyQuery ==
  [t |-> "query", returned |-> FALSE,
   hasOr |-> FALSE, or |-> <<>>, hasAnd |-> FALSE, and |-> <<>>]

RECURSIVE rulesToQueryLoop(_, _)
\* The loop of rulesToQuery over the relevant rules: a deny rule without
\* conditions breaks out of it, an allow rule without conditions deletes
\* $or and returns the query at once (returned = TRUE).
rulesToQueryLoop(rs, q) ==
  IF rs = <<>> THEN q
  ELSE
    LET rule == Head(rs) IN
    IF Falsy(rule.conditions)
      THEN IF rule.inverted
             THEN q
             ELSE [q EXCEPT !.returned = TRUE, !.hasOr = FALSE, !.or = <<>>]
    ELSE IF rule.inverted
      THEN rulesToQueryLoop(Tail(rs),
             [q EXCEPT !.hasAnd = TRUE, !.and = Append(q.and, convert(rule))])
    ELSE rulesToQueryLoop(Tail(rs),
             [q EXCEPT !.hasOr = TRUE, !.or = Append(q.or, convert(rule))])

\* A slip in the last line of rulesToQuery: the query is returned although
\* it has no $or.
rulesToQuery_NeverNull(ability, action, subjectType) ==
  rulesToQueryLoop(rulesFor(ability, action, subjectType), EmptyQuery)

\* rulesToQuery(ability, action, subjectType, convert): after the loop,
\* query.$or ? query : null.
rulesToQuery(ability, action, subjectType) ==
  LET q == rulesToQueryLoop(rulesFor(ability, action, subjectType), EmptyQuery) IN
  IF q.returned \/ q.hasOr THEN q ELSE Null

Forbidden(action, subjectType) ==
  [kind |-> "forbidden", action |-> action, subjectType |-> subjectType]

Filter(f) == [kind |-> "filter", filter |-> f]

\* A slip in the else branch: OR is written although the query has no $or.
drizzleQueryOf_AlwaysOr(q) ==
  LET fromOr ==
        IF q.hasOr /\ Len(q.or) = 1 THEN AssignAll(<<>>, Entries(q.or[1]))
        ELSE <<E("OR", Arr(q.or))>>
  IN Obj(IF q.hasAnd THEN SetKey(fromOr, "AND", Arr(q.and)) ELSE fromOr)

\* The part of proxyHandlers.get after the null test: the drizzleQuery object.
drizzleQueryOf(q) ==
  LET fromOr ==
        IF q.hasOr /\ Len(q.or) = 1 THEN AssignAll(<<>>, Entries(q.or[1]))
        ELSE IF q.hasOr THEN <<E("OR", Arr(q.or))>>
        ELSE <<>>
  IN Obj(IF q.hasAnd THEN SetKey(fromOr, "AND", Arr(q.and)) ELSE fromOr)

\* proxyHandlers.get(target, subjectType) with target = {_ability, _action}.
proxyHandlersGet(ability, action, subjectType) ==
  LET q == rulesToQuery(ability, action, subjectType) IN
  IF q.t = "null" THEN Forbidden(action, subjectType)
  ELSE Filter(normalizeDrizzleConditions(drizzleQueryOf(q)))

\* accessibleBy(ability, action)[subjectType]
accessibleBy(ability, action, subjectType) ==
  proxyHandlersGet(ability, action, subjectType)

\* A slip in proxyHandlers.get: drizzleQuery is the single condition itself
\* and not a new object, so the assignment of AND writes into the conditions
\* object of the allow rule.
proxyHandlersGetWrites_IntoCondition(ability, action, subjectType) ==
  LET q == rulesToQuery(ability, action, subjectType) IN
  IF q.t = "null" THEN ability
  ELSE IF q.hasOr /\ Len(q.or) = 1 /\ q.hasAnd
    THEN [i \in 1..Len(ability) |->
            IF /\ RuleMatches(ability[i], action, subjectType)
               /\ ~ability[i].inverted
               /\ ability[i].conditions = q.or[1]
              THEN [ability[i] EXCEPT
                      !.conditions = Obj(SetKey(Entries(q.or[1]), "AND", Arr(q.and)))]
              ELSE ability[i]]
  ELSE ability

\* The rules of the ability after proxyHandlers.get has returned or thrown.
\* rulesToQuery and convert only read the rules; Object.assign and the
\* assignment of AND write to drizzleQuery, created by Object.create(null);
\* normalizeDrizzleConditions writes to the result objects it creates.  No
\* rule and no conditions object is written.
proxyHandlersGetWrites(ability, action, subjectType) == ability

(***************************************************************************)
(* DrizzleQueryParser: the instruction registry and parse                  *)
(***************************************************************************)
FieldCondition(operator, field, value) ==
  [k |-> "field", operator |-> operator, field |-> field, value |-> value]

CompoundCondition(operator, children) ==
  [k |-> "compound", operator |-> operator, children |-> children]

NULL_CONDITION == [k |-> "null"]

\* A thrown error: type is the error class, op the instruction or key the
\* message names.
Thrown(type, op) == [k |-> "error", type |-> type, op |-> op]

IsError(x) == x.k = "error"

\* A list of conditions under construction.
Conds(items) == [k |-> "list", items |-> items]

\* A slip in isPlainObject: only objects without a prototype count, and
\* no value of the model is one.
isPlainObject_NullPrototypeOnly(value) == FALSE

isPlainObject(value) == value.t = "obj"

CompoundNames == {"NOT", "AND", "OR"}

\* The keys of the instructions object.
InstructionNames ==
  {"eq", "ne", "not", "in", "notIn", "lt", "lte", "gt", "gte",
   "$lt", "$lte", "$gt", "$gte", "$in", "$nin", "mode",
   "startsWith", "endsWith", "contains", "like", "ilike", "notLike", "notIlike",
   "isNull", "isNotNull", "isEmpty", "has", "hasSome", "hasEvery",
   "arrayOverlaps", "arrayContained", "arrayContains",
   "NOT", "AND", "OR", "every", "some", "none", "is", "isNot", "isSet", "RAW"}

InstructionType(name) == IF name \in CompoundNames THEN "compound" ELSE "field"

\* hasOperators of the parsing context: a plain object with at least one
\* key that is an instruction name.
hasOperators(value) ==
  /\ value.t = "obj"
  /\ \E i \in 1..Len(value.o) : value.o[i].key \in InstructionNames

RECURSIVE normalizeEqOperator(_)
normalizeEqOperator(value) ==
  IF IsArray(value)
    THEN Arr([i \in 1..Len(value.a) |-> normalizeEqOperator(value.a[i])])
  ELSE IF ~isPlainObject(value) THEN value
  ELSE IF Len(value.o) = 1 /\ value.o[1].key = "eq"
    THEN normalizeEqOperator(value.o[1].val)
  ELSE Obj([i \in 1..Len(value.o) |->
              E(value.o[i].key, normalizeEqOperator(value.o[i].val))])

\* POSSIBLE_MODES
POSSIBLE_MODES == {Str(<<"insensitive">>), Str(<<"default">>)}

Insensitive == Str(<<"insensitive">>)

\* The validate function of the instruction registered under name: the
\* error it throws, or NULL_CONDITION when it accepts the value (or the
\* instruction has no validate).
validate(name, value) ==
  CASE name = "eq" ->
         IF IsArray(value) \/ isPlainObject(value)
           THEN Thrown("ParsingQueryError", name) ELSE NULL_CONDITION
    [] name \in {"in", "notIn", "$in", "$nin", "hasSome", "hasEvery",
                 "arrayOverlaps", "arrayContained", "arrayContains"} ->
         IF ~IsArray(value) THEN Thrown("ParsingQueryError", name) ELSE NULL_CONDITION
    [] name \in {"lt", "lte", "gt", "gte", "$lt", "$lte", "$gt", "$gte"} ->
         IF value.t \in {"str", "num", "date"}
           THEN NULL_CONDITION ELSE Thrown("ParsingQueryError", name)
    [] name = "mode" ->
         IF value \in POSSIBLE_MODES
           THEN NULL_CONDITION ELSE Thrown("ParsingQueryError", name)
    [] name \in {"startsWith", "endsWith", "contains", "like", "ilike"} ->
         IF value.t = "str" THEN NULL_CONDITION ELSE Thrown("ParsingQueryError", name)
    [] name \in {"isNull", "isNotNull", "isEmpty", "isSet"} ->
         IF value.t = "bool" THEN NULL_CONDITION ELSE Thrown("ParsingQueryError", name)
    [] name \in CompoundNames ->
         IF IsObjectLike(value) THEN NULL_CONDITION ELSE Thrown("ParsingQueryError", name)
    [] OTHER -> NULL_CONDITION

\* A slip in compareString.parse: the operator keeps its name whatever the
\* mode.
InsensitiveName_Unchanged(name) == name

\* `i${instruction.name}`
InsensitiveName(name) ==
  CASE name = "startsWith" -> "istartsWith"
    [] name = "endsWith" -> "iendsWith"
    [] name = "contains" -> "icontains"
    [] OTHER -> name

\* inverted(name, baseInstruction): the operator the inverted instruction
\* registered under key reports.
InvertedBase(key) ==
  CASE key \in {"notIn", "$nin"} -> "in"
    [] key = "none" -> "some"
    [] key = "isNot" -> "is"
    [] OTHER -> key

\* buildAnd: one condition stands for itself, otherwise an "and" compound
\* with nested "and" compounds flattened.
RECURSIVE flattenConditions(_, _)
flattenConditions(operator, conditions) ==
  IF conditions = <<>> THEN <<>>
  ELSE
    LET c == Head(conditions) IN
    (IF c.k = "compound" /\ c.operator = operator
       THEN flattenConditions(operator, c.children)
       ELSE <<c>>) \o flattenConditions(operator, Tail(conditions))

\* A slip in buildAnd: the conditions are joined by "or".
buildAnd_Or(conditions) ==
  IF Len(conditions) = 1 THEN conditions[1]
  ELSE CompoundCondition("or", flattenConditions("or", conditions))

buildAnd(conditions) ==
  IF Len(conditions) = 1 THEN conditions[1]
  ELSE CompoundCondition("and", flattenConditions("and", conditions))

\* pushIfNonNullCondition
pushIfNonNullCondition(conditions, condition) ==
  IF condition = NULL_CONDITION THEN conditions ELSE Append(conditions, condition)

RECURSIVE parse(_, _)
RECURSIVE ParseEach(_, _)
RECURSIVE parseInstruction(_, _, _, _)
RECURSIVE parseField(_, _, _, _)
RECURSIVE parseFieldOperatorsLoop(_, _, _, _)
RECURSIVE ParseDocumentLoop(_, _, _)

\* A slip in the compound instruction: of a list, only the first filter
\* object is parsed.
ParseEach_FirstOnly(values, done) ==
  IF values = <<>> THEN Conds(done)
  ELSE
    LET c == parse(Head(values), "") IN
    IF IsError(c) THEN c ELSE Conds(<<c>>)

\* value.map((v) => parse(v)) of the compound instruction; the first error
\* thrown ends the map.
ParseEach(values, done) ==
  IF values = <<>> THEN Conds(done)
  ELSE
    LET c == parse(Head(values), "") IN
    IF IsError(c) THEN c ELSE ParseEach(Tail(values), Append(done, c))

\* ObjectQueryParser.parseInstruction: validate, then the instruction's own
\* parse or the default parser of its type.  query is the parent query of
\* the parsing context.
parseInstruction(name, value, field, parentQuery) ==
  LET invalid == validate(name, value)
      mode == IF IsObjectLike(parentQuery)
                THEN Lookup(Entries(parentQuery), "mode") ELSE Undefined
  IN
  IF IsError(invalid) THEN invalid
  ELSE CASE name \in CompoundNames ->
              LET cs == ParseEach(IF IsArray(value) THEN value.a ELSE <<value>>, <<>>)
              IN IF IsError(cs) THEN cs ELSE CompoundCondition(name, cs.items)
         [] name = "ne" -> FieldCondition("notEquals", field, value)
         [] name = "not" ->
              IF (isPlainObject(value) /\ ~hasOperators(value)) \/ IsArray(value)
                THEN Thrown("ParsingQueryError", name)
              ELSE IF ~isPlainObject(value)
                THEN FieldCondition("notEquals", field, value)
              ELSE LET c == parse(value, field)
                   IN IF IsError(c) THEN c ELSE CompoundCondition("NOT", <<c>>)
         [] name \in {"notIn", "$nin"} ->
              CompoundCondition("NOT", <<FieldCondition(InvertedBase(name), field, value)>>)
         [] name = "mode" -> NULL_CONDITION
         [] name \in {"startsWith", "endsWith", "contains"} ->
              FieldCondition(IF mode = Insensitive THEN InsensitiveName(name) ELSE name,
                             field, value)
         [] name \in {"like", "ilike"} ->
              IF name = "ilike" \/ mode = Insensitive
                THEN FieldCondition("ilike", field, value)
                ELSE FieldCondition("like", field, value)
         [] name = "notLike" ->
              LET c == parse(Obj(<<E("like", value)>>), field)
              IN IF IsError(c) THEN c ELSE CompoundCondition("NOT", <<c>>)
         [] name = "notIlike" ->
              LET c == parse(Obj(<<E("ilike", value)>>), field)
              IN IF IsError(c) THEN c ELSE CompoundCondition("NOT", <<c>>)
         [] name \in {"every", "some", "is"} ->
              IF ~isPlainObject(value) THEN Thrown("ParsingQueryError", name)
              ELSE LET c == parse(value, "")
                   IN IF IsError(c) THEN c ELSE FieldCondition(name, field, c)
         [] name \in {"none", "isNot"} ->
              IF ~isPlainObject(value) THEN Thrown("ParsingQueryError", name)
              ELSE LET c == parse(value, "")
                   IN IF IsError(c) THEN c
                      ELSE CompoundCondition("NOT",
                             <<FieldCondition(InvertedBase(name), field, c)>>)
         [] name = "RAW" -> FieldCondition("RAW", "RAW", value)
         [] OTHER -> FieldCondition(name, field, value)

\* ObjectQueryParser.parseField
parseField(field, operator, value, parentQuery) ==
  IF operator \notin InstructionNames THEN Thrown("Error", operator)
  ELSE IF InstructionType(operator) # "field" THEN Thrown("Error", operator)
  ELSE parseInstruction(operator, value, field, parentQuery)

\* ObjectQueryParser.parseFieldOperators: the loop over the keys of value.
parseFieldOperatorsLoop(field, value, entries, conditions) ==
  IF entries = <<>> THEN Conds(conditions)
  ELSE
    LET op == Head(entries).key IN
    IF op \notin InstructionNames THEN Thrown("Error", field)
    ELSE
      LET c == parseField(field, op, Head(entries).val, value) IN
      IF IsError(c) THEN c
      ELSE parseFieldOperatorsLoop(field, value, Tail(entries),
                                   pushIfNonNullCondition(conditions, c))

\* ObjectQueryParser.parse: the loop over the keys of the query.
ParseDocumentLoop(q, entries, conditions) ==
  IF entries = <<>> THEN buildAnd(conditions)
  ELSE
    LET key == Head(entries).key
        value == Head(entries).val
    IN
    IF key \in InstructionNames
      THEN IF InstructionType(key) # "compound" THEN Thrown("Error", key)
           ELSE LET c == parseInstruction(key, value, "", q) IN
                IF IsError(c) THEN c
                ELSE ParseDocumentLoop(q, Tail(entries),
                                       pushIfNonNullCondition(conditions, c))
    ELSE IF hasOperators(value)
      THEN LET cs == parseFieldOperatorsLoop(key, value, Entries(value), <<>>) IN
           IF IsError(cs) THEN cs
           ELSE ParseDocumentLoop(q, Tail(entries), conditions \o cs.items)
    ELSE LET c == parseField(key, "eq", value, q) IN
         IF IsError(c) THEN c
         ELSE ParseDocumentLoop(q, Tail(entries),
                                pushIfNonNullCondition(conditions, c))

\* DrizzleQueryParser.parse(query, options): field = "" stands for a call
\* without options.
parse(q, field) ==
  LET normalizedQuery == normalizeEqOperator(q) IN
  IF normalizedQuery.t \in {"null", "undef"} THEN Thrown("TypeError", "keys")
  ELSE IF field # ""
    THEN LET cs == parseFieldOperatorsLoop(field, normalizedQuery,
                                           Entries(normalizedQuery), <<>>)
         IN IF IsError(cs) THEN cs ELSE buildAnd(cs.items)
  ELSE ParseDocumentLoop(normalizedQuery, Entries(normalizedQuery), <<>>)

(***************************************************************************)
(* interpretDrizzleQuery.  An evaluation ends in "true" or "false", or in  *)
(* a thrown error: "Error" (no interpreter registered for the operator)    *)
(* or "TypeError".                                                         *)
(***************************************************************************)
B(b) == IF b THEN "true" ELSE "false"

IsBoolean(r) == r \in {"true", "false"}

Negate(r) == IF r = "true" THEN "false" ELSE IF r = "false" THEN "true" ELSE r

\* The keys of the object given to createJsInterpreter.
InterpreterNames ==
  {"equals", "notEquals", "in", "lt", "lte", "gt", "gte",
   "startsWith", "istartsWith", "endsWith", "iendsWith", "contains", "icontains",
   "isEmpty", "has", "hasSome", "hasEvery", "and", "or", "AND", "OR", "NOT",
   "every", "some", "is", "isSet"}

IsPrimitive(v) == v.t \in {"num", "str", "bool", "null", "undef"}

\* a === b: primitives by value; a record's object is never the object
\* written in a condition.
StrictEq(a, b) == IsPrimitive(a) /\ a = b

\* toComparable
toComparable(value) == IF value.t = "date" THEN Num(value.ms) ELSE value

\* UTF-16 code units of the characters used in strings.
CharCode(c) ==
  CASE c = "%" -> 37 [] c = "A" -> 65 [] c = "B" -> 66 [] c = "H" -> 72
    [] c = "L" -> 76 [] c = "P" -> 80 [] c = "a" -> 97 [] c = "b" -> 98
    [] c = "e" -> 101 [] c = "h" -> 104 [] c = "l" -> 108 [] c = "p" -> 112
    [] OTHER -> 0

\* String.prototype.toLowerCase on one character.
LowerChar(c) ==
  CASE c = "A" -> "a" [] c = "B" -> "b" [] c = "H" -> "h"
    [] c = "L" -> "l" [] c = "P" -> "p" [] OTHER -> c

toLowerCase(s) == [i \in 1..Len(s) |-> LowerChar(s[i])]

RECURSIVE StrGreater(_, _)
\* a > b on two strings: by code units, a proper prefix being smaller.
StrGreater(a, b) ==
  IF a = <<>> THEN FALSE
  ELSE IF b = <<>> THEN TRUE
  ELSE IF CharCode(Head(a)) # CharCode(Head(b))
    THEN CharCode(Head(a)) > CharCode(Head(b))
  ELSE StrGreater(Tail(a), Tail(b))

\* ToNumber: [nan |-> TRUE] or [nan |-> FALSE, n |-> number].  The strings of
\* the model are empty or alphabetic; arrays and objects convert to NaN
\* except the empty array.
ToNumber(v) ==
  CASE v.t = "num" -> [nan |-> FALSE, n |-> v.n]
    [] v.t = "bool" -> [nan |-> FALSE, n |-> IF v.b THEN 1 ELSE 0]
    [] v.t = "null" -> [nan |-> FALSE, n |-> 0]
    [] v.t = "str" /\ v.s = <<>> -> [nan |-> FALSE, n |-> 0]
    [] v.t = "arr" /\ v.a = <<>> -> [nan |-> FALSE, n |-> 0]
    [] OTHER -> [nan |-> TRUE]

\* a > b
Greater(a, b) ==
  IF a.t = "str" /\ b.t = "str" THEN StrGreater(a.s, b.s)
  ELSE LET x == ToNumber(a)
           y == ToNumber(b)
       IN ~x.nan /\ ~y.nan /\ x.n > y.n

\* compare of @ucast/js.
compare(a, b) == IF StrictEq(a, b) THEN 0 ELSE IF Greater(a, b) THEN 1 ELSE -1

\* compareValues
compareValues(a, b) == compare(toComparable(a), toComparable(b))

\* includes(items, value, compare) of @ucast/js.
includes(items, value) ==
  \E i \in 1..Len(items) : compareValues(items[i], value) = 0

\* Array.prototype.includes
ArrayIncludes(items, value) == \E i \in 1..Len(items) : StrictEq(items[i], value)

\* The get option: object[field]; reading a property of null or undefined
\* throws.
CanGet(object) == object.t \notin {"null", "undef"}

get(object, field) ==
  IF IsObjectLike(object) THEN Lookup(Entries(object), field) ELSE Undefined

IsPrefix(p, s) == Len(p) <= Len(s) /\ SubSeq(s, 1, Len(p)) = p

IsSuffix(p, s) == Len(p) <= Len(s) /\ SubSeq(s, Len(s) - Len(p) + 1, Len(s)) = p

IsInfix(p, s) ==
  \E i \in 0..(Len(s) - Len(p)) : SubSeq(s, i + 1, i + Len(p)) = p

\* The test given to testValueOrArray for each comparison operator.
TestValue(operator, nodeValue, value) ==
  LET c == compareValues(value, nodeValue) IN
  CASE operator = "lt" -> c = -1
    [] operator = "lte" -> c = 0 \/ c = -1
    [] operator = "gt" -> c = 1
    [] operator = "gte" -> c = 0 \/ c = 1
    [] operator = "in" -> includes(nodeValue.a, value)
    [] OTHER -> FALSE

\* testValueOrArray(test)
testValueOrArray(operator, nodeValue, value) ==
  IF ~IsArray(value) THEN TestValue(operator, nodeValue, value)
  ELSE \E i \in 1..Len(value.a) : TestValue(operator, nodeValue, value.a[i])

\* eq of @ucast/js, registered as equals.
eqInterpreter(nodeValue, value) ==
  IF IsArray(value) /\ ~IsArray(nodeValue) THEN includes(value.a, nodeValue)
  ELSE compareValues(value, nodeValue) = 0

\* The string interpreters: a method call on the field value.
StringInterpreter(operator, nodeValue, value) ==
  IF value.t = "str" THEN
    CASE operator = "startsWith" -> B(IsPrefix(nodeValue.s, value.s))
      [] operator = "istartsWith" ->
           B(IsPrefix(toLowerCase(nodeValue.s), toLowerCase(value.s)))
      [] operator = "endsWith" -> B(IsSuffix(nodeValue.s, value.s))
      [] operator = "iendsWith" ->
           B(IsSuffix(toLowerCase(nodeValue.s), toLowerCase(value.s)))
      [] operator = "contains" -> B(IsInfix(nodeValue.s, value.s))
      [] OTHER -> B(IsInfix(toLowerCase(nodeValue.s), toLowerCase(value.s)))
  ELSE IF operator = "contains" /\ IsArray(value)
    THEN B(ArrayIncludes(value.a, nodeValue))
  ELSE "TypeError"

RECURSIVE interpret(_, _)
RECURSIVE EveryCondition(_, _)
RECURSIVE SomeCondition(_, _)
RECURSIVE NoCondition(_, _)
RECURSIVE EveryItem(_, _)
RECURSIVE SomeItem(_, _)

\* conditions.every((c) => interpret(c, object)): and of @ucast/js.
EveryCondition(conditions, object) ==
  IF conditions = <<>> THEN "true"
  ELSE LET r == interpret(Head(conditions), object) IN
       IF r = "true" THEN EveryCondition(Tail(conditions), object) ELSE r

\* conditions.some((c) => interpret(c, object)): or of @ucast/js.
SomeCondition(conditions, object) ==
  IF conditions = <<>> THEN "false"
  ELSE LET r == interpret(Head(conditions), object) IN
       IF r = "false" THEN SomeCondition(Tail(conditions), object) ELSE r

\* not: condition.value.every((c) => !interpret(c, object))
NoCondition(conditions, object) ==
  IF conditions = <<>> THEN "true"
  ELSE LET r == interpret(Head(conditions), object) IN
       IF r = "false" THEN NoCondition(Tail(conditions), object) ELSE Negate(r)

\* items.every((item) => interpret(condition, item))
EveryItem(condition, items) ==
  IF items = <<>> THEN "true"
  ELSE LET r == interpret(condition, Head(items)) IN
       IF r = "true" THEN EveryItem(condition, Tail(items)) ELSE r

\* items.some((item) => interpret(condition, item))
SomeItem(condition, items) ==
  IF items = <<>> THEN "false"
  ELSE LET r == interpret(condition, Head(items)) IN
       IF r = "false" THEN SomeItem(condition, Tail(items)) ELSE r

\* The interpreter registered for operator, applied to a field condition.
InterpretField(condition, object) ==
  LET operator == condition.operator
      nodeValue == condition.value
      value == get(object, condition.field)
  IN
  IF ~CanGet(object) THEN "TypeError"
  ELSE CASE operator = "equals" -> B(eqInterpreter(nodeValue, value))
         [] operator = "notEquals" -> B(~eqInterpreter(nodeValue, value))
         [] operator \in {"in", "lt", "lte", "gt", "gte"} ->
              B(testValueOrArray(operator, nodeValue, value))
         [] operator \in {"startsWith", "istartsWith", "endsWith", "iendsWith",
                          "contains", "icontains"} ->
              StringInterpreter(operator, nodeValue, value)
         [] operator = "isEmpty" ->
              B((IsArray(value) /\ Len(value.a) = 0) = nodeValue.b)
         [] operator = "has" -> B(IsArray(value) /\ ArrayIncludes(value.a, nodeValue))
         [] operator = "hasSome" ->
              B(IsArray(value)
                /\ \E i \in 1..Len(nodeValue.a) : ArrayIncludes(value.a, nodeValue.a[i]))
         [] operator = "hasEvery" ->
              B(IsArray(value)
                /\ \A i \in 1..Len(nodeValue.a) : ArrayIncludes(value.a, nodeValue.a[i]))
         [] operator = "every" ->
              IF IsArray(value) /\ Len(value.a) > 0
                THEN EveryItem(nodeValue, value.a) ELSE "false"
         [] operator = "some" ->
              IF IsArray(value) THEN SomeItem(nodeValue, value.a) ELSE "false"
         [] operator = "is" ->
              IF IsObjectLike(value) THEN interpret(nodeValue, value) ELSE "false"
         [] operator = "isSet" -> B(value # Undefined)
         [] OTHER -> "Error"

\* interpretDrizzleQuery(condition, object)
interpret(condition, object) ==
  IF condition.operator \notin InterpreterNames THEN "Error"
  ELSE IF condition.operator \in {"and", "AND"} THEN EveryCondition(condition.children, object)
  ELSE IF condition.operator \in {"or", "OR"} THEN SomeCondition(condition.children, object)
  ELSE IF condition.operator = "NOT" THEN NoCondition(condition.children, object)
  ELSE InterpretField(condition, object)

interpretDrizzleQuery(condition, object) == interpret(condition, object)

\* matches(query, record) of the operator tests, and the conditions matcher
\* drizzleQuery: parse, then interpret.  A throw of either stage is the
\* result.
matches(q, object) ==
  LET condition == parse(q, "") IN
  IF IsError(condition) THEN condition.type
  ELSE interpretDrizzleQuery(condition, object)

(***************************************************************************)
(* ability.can(action, record) of the ability createAbility builds: the    *)
(* first relevant rule, the last declared first, whose conditions the      *)
(* record matches decides; the conditions matcher is drizzleQuery.  A      *)
(* throw of the matcher is the result.                                     *)
(***************************************************************************)
RECURSIVE relevantRuleFor(_, _)
relevantRuleFor(rs, object) ==
  IF rs = <<>> THEN "false"
  ELSE
    LET rule == Head(rs)
        matched == IF Falsy(rule.conditions) THEN "true"
                   ELSE matches(rule.conditions, object)
    IN IF matched = "true" THEN B(~rule.inverted)
       ELSE IF matched = "false" THEN relevantRuleFor(Tail(rs), object)
       ELSE matched

abilityCan(ability, action, subjectType, object) ==
  relevantRuleFor(rulesFor(ability, action, subjectType), object)

(***************************************************************************)
(* The relation helpers some, every and none                               *)
(***************************************************************************)
\* typeof condition === "function"
IsFunction(v) == v.t = "fn"

\* condition(operators): the SQL object a builder function returns.
CallBuilder(condition) ==
  Inst("SQL", <<E("queryChunks", Arr(<<Str(<<"f">>), Num(condition.id)>>))>>)

\* sql`1=0`
SqlFalse == Inst("SQL", <<E("queryChunks", Arr(<<Str(<<"1", "=", "0">>)>>))>>)

some(condition) ==
  IF IsFunction(condition) THEN Obj(<<E("RAW", CallBuilder(condition))>>)
  ELSE Obj(<<E("RAW", condition)>>)

every(condition) ==
  IF IsFunction(condition) THEN Obj(<<E("RAW", CallBuilder(condition))>>)
  ELSE Obj(<<E("RAW", condition)>>)

none(condition) ==
  IF Falsy(condition) THEN Obj(<<E("RAW", SqlFalse)>>)
  ELSE IF IsFunction(condition) THEN Obj(<<E("RAW", CallBuilder(condition))>>)
  ELSE Obj(<<E("RAW", condition)>>)

(***************************************************************************)
(* Inputs                                                                  *)
(***************************************************************************)
MaxRules == 2

Actions == {"read", "update"}

SubjectTypes == {"X", "Y"}

Field(k, v) == Obj(<<E(k, v)>>)

Op(k, op, v) == Obj(<<E(k, Obj(<<E(op, v)>>))>>)

S_Al == Str(<<"A", "l">>)

S_al == Str(<<"a", "l">>)

S_Alpha == Str(<<"A", "l", "p", "h", "a">>)

S_AlPct == Str(<<"A", "l", "%">>)

S_ALPHA == Str(<<"A", "L", "P", "H", "A">>)

S_HA == Str(<<"H", "A">>)

\* An opaque payload of RAW: an SQL object (a class instance).
SqlPayload == Inst("SQL", <<E("queryChunks", Arr(<<S_al>>))>>)

\* The arguments given to the relation helpers; none takes none as well.
HelperArguments == {SqlPayload, Fn(1), Undefined}

\* The conditions a rule can be declared with.
CondPool ==
  << Field("id", Num(1)),
     Field("id", Num(2)),
     Op("id", "lt", Num(2)),
     Op("id", "gt", Num(2)),
     Field("AND", Arr(<<Op("id", "lt", Num(2))>>)),
     Op("id", "$nin", Arr(<<Num(2)>>)),
     Op("id", "$lt", Num(3)),
     Field("RAW", SqlPayload),
     Field("RAW", Fn(1)),
     Field("AND", Arr(<<Field("RAW", SqlPayload), Op("name", "ne", S_al)>>)),
     Op("items", "RAW", SqlPayload),
     Field("NOT", Arr(<<Op("id", "$lt", Num(3))>>)),
     Op("id", "lt", DateOf(2)) >>

\* The conditions argument of can/cannot: absent, or one of the pool.
ConditionChoices == {Undefined} \cup {CondPool[i] : i \in 1..Len(CondPool)}

\* The records filters are evaluated on.
RecordPool ==
  { Obj(<<E("id", Num(1)), E("name", S_Alpha), E("tags", Arr(<<S_al>>)),
          E("items", Arr(<<Field("id", Num(1)), Field("id", Num(2))>>)),
          E("rel", Field("id", Num(1)))>>),
    Obj(<<E("id", Num(2)), E("name", S_al), E("tags", Arr(<<>>)),
          E("items", Arr(<<>>)), E("rel", Null)>>),
    Obj(<<E("id", Num(3))>>),
    Obj(<<E("id", Num(1)), E("name", Num(5)),
          E("items", Arr(<<Field("id", Num(3))>>))>>),
    Obj(<<E("id", Num(3)), E("name", S_ALPHA), E("maybe", Null)>>) }

\* The operands given to lt, lte, gt and gte.
ComparisonOperands ==
  { Num(2), S_al, DateOf(2), Null, Bool(TRUE), NaN, PositiveInfinity,
    Arr(<<Num(2)>>), Obj(<<E("a", Num(2))>>), Obj(<<E("eq", Num(2))>>) }

ComparisonQueries ==
  { Op("id", op, v) : op \in {"lt", "lte", "gt", "gte"}, v \in ComparisonOperands }

\* The filter objects given to the parser on their own.
QueryPool ==
  ComparisonQueries \cup
  { Obj(<<>>),
    Field("id", Num(1)),
    Op("id", "eq", Num(1)),
    Op("id", "ne", Num(2)),
    Op("name", "ne", S_al),
    Op("id", "ne", Arr(<<Num(1)>>)),
    Op("id", "ne", Obj(<<E("a", Num(1))>>)),
    Field("name", S_al),
    Op("name", "eq", S_al),
    Field("maybe", Null),
    Op("id", "eq", Bool(TRUE)),
    Op("id", "eq", Arr(<<Num(1)>>)),
    Op("id", "eq", Obj(<<E("a", Num(1))>>)),
    Op("id", "eq", Obj(<<E("gt", Num(2))>>)),
    Field("id", Arr(<<Num(1)>>)),
    Field("id", Obj(<<E("a", Num(1))>>)),
    Op("id", "lt", Num(2)),
    Op("id", "gte", Num(2)),
    Op("id", "$lt", Num(2)),
    Op("id", "in", Arr(<<Num(1), Num(2)>>)),
    Op("id", "$in", Arr(<<Num(1), Num(2)>>)),
    Op("id", "$nin", Arr(<<Num(2)>>)),
    Op("id", "$gte", Num(2)),
    Op("id", "in", Num(1)),
    Op("name", "like", S_AlPct),
    Op("name", "ilike", S_AlPct),
    Op("name", "like", Num(1)),
    Op("name", "startsWith", S_Al),
    Op("name", "endsWith", S_al),
    Op("name", "contains", S_al),
    Obj(<<E("name", Obj(<<E("startsWith", S_al), E("mode", Str(<<"insensitive">>))>>))>>),
    Obj(<<E("name", Obj(<<E("contains", S_al), E("mode", Insensitive)>>))>>),
    Obj(<<E("name", Obj(<<E("mode", Insensitive), E("contains", S_al)>>))>>),
    Obj(<<E("name", Obj(<<E("mode", Insensitive), E("endsWith", S_HA)>>))>>),
    Obj(<<E("name", Obj(<<E("startsWith", S_al), E("mode", Str(<<"default">>))>>))>>),
    Op("name", "endsWith", S_HA),
    Op("name", "isNull", Bool(TRUE)),
    Op("tags", "isEmpty", Bool(FALSE)),
    Op("tags", "has", S_al),
    Op("tags", "hasSome", Arr(<<S_al>>)),
    Op("tags", "arrayContains", Arr(<<S_al>>)),
    Op("maybe", "isSet", Bool(FALSE)),
    Op("maybe", "isSet", Bool(TRUE)),
    Op("rel", "is", Op("id", "lt", Num(2))),
    Op("items", "some", Op("id", "gt", Num(1))),
    Op("items", "some", Field("id", Num(2))),
    Op("items", "every", Op("id", "gt", Num(0))),
    Op("items", "none", Field("id", Num(3))),
    Op("items", "none", Op("id", "gt", Num(1))),
    Field("AND", Arr(<<Op("id", "gte", Num(1)), Op("name", "startsWith", S_Al)>>)),
    Obj(<<E("id", Obj(<<E("gte", Num(1)), E("lt", Num(3))>>))>>),
    Obj(<<E("id", Obj(<<E("lt", Num(3))>>)), E("name", Obj(<<E("startsWith", S_Al)>>))>>),
    Obj(<<E("id", Obj(<<E("gte", Num(2)), E("lte", Num(3))>>)),
          E("OR", Arr(<<Op("id", "lt", Num(3)), Op("name", "contains", S_al)>>))>>),
    Field("OR", Arr(<<Op("id", "lt", Num(2)), Op("id", "gt", Num(2))>>)),
    Field("NOT", Op("id", "in", Arr(<<Num(2)>>))),
    Field("NOT", Arr(<<>>)),
    Field("NOT", Arr(<<Op("id", "lt", Num(2)), Op("id", "gt", Num(2))>>)),
    Op("items", "some", Field("NOT", Arr(<<Op("id", "lt", Num(2)), Op("id", "gt", Num(2))>>))),
    Op("id", "not", Obj(<<E("lt", Num(2))>>)),
    Op("id", "not", Obj(<<E("gte", Num(1)), E("lt", Num(3))>>)),
    Op("id", "not", Num(1)),
    Op("name", "not", S_al),
    Op("id", "not", Arr(<<Num(1)>>)),
    Op("id", "not", Obj(<<E("a", Num(1))>>)),
    Op("id", "notIn", Arr(<<Num(2)>>)),
    Op("name", "notLike", S_AlPct),
    Op("name", "notIlike", S_AlPct),
    Op("rel", "isNot", Op("id", "lt", Num(2))),
    Op("items", "RAW", SqlPayload),
    Op("items", "RAW", Fn(1)),
    Obj(<<E("id", Op("id", "lt", Num(3)).o[1].val), E("items", Obj(<<E("RAW", SqlPayload)>>))>>),
    Field("RAW", SqlPayload),
    Op("id", "foo", Num(1)),
    Obj(<<E("id", Obj(<<E("foo", Num(1)), E("bar", Num(2))>>))>>),
    Obj(<<E("id", Obj(<<E("lt", Num(2)), E("foo", Num(1))>>))>>),
    Obj(<<E("id", Obj(<<E("foo", Num(1)), E("lt", Num(2))>>))>>),
    Obj(<<E("id", Num(1)), E("name", Obj(<<E("startsWith", S_Al), E("foo", Num(1))>>))>>) }

(***************************************************************************)
(* The program as a state machine.                                         *)
(*   rules    the rules declared so far through can / cannot               *)
(*   access   the last read of accessibleBy(ability, action)[subjectType]  *)
(*   query, record, tree, verdict                                          *)
(*            a filter object and a record given to the parser and the     *)
(*            interpreter, the parsed condition and the evaluation         *)
(*   built    the last call of a relation helper: its name, its argument   *)
(*            and the object it returned                                   *)
(***************************************************************************)
NoAccess == [kind |-> "none"]

NoTree == [k |-> "none"]

NoCall == [name |-> "-"]

Init ==
  /\ rules = <<>>
  /\ access = NoAccess
  /\ query = Obj(<<>>)
  /\ record = Obj(<<>>)
  /\ tree = NoTree
  /\ verdict = "none"
  /\ built = NoCall

\* can(action, subject, conditions) of the ability builder
Can(action, subject, conditions) ==
  /\ access = NoAccess
  /\ Len(rules) < MaxRules
  /\ rules' = Append(rules, Rule(action, subject, FALSE, conditions))
  /\ UNCHANGED <<access, query, record, tree, verdict, built>>

\* cannot(action, subject, conditions) of the ability builder
Cannot(action, subject, conditions) ==
  /\ access = NoAccess
  /\ Len(rules) < MaxRules
  /\ rules' = Append(rules, Rule(action, subject, TRUE, conditions))
  /\ UNCHANGED <<access, query, record, tree, verdict, built>>

\* accessibleBy(ability, action)[subjectType]: the filter, or the
\* ForbiddenError thrown.
AccessibleBy(action, subjectType) ==
  /\ verdict = "none"
  /\ access' = [kind |-> "read", action |-> action, subjectType |-> subjectType,
                result |-> accessibleBy(rules, action, subjectType)]
  /\ rules' = proxyHandlersGetWrites(rules, action, subjectType)
  /\ UNCHANGED <<query, record, tree, verdict, built>>

\* The declarations of the model: every condition choice for ("read", "X"),
\* and rules for another action, another subject type and the wildcards.
OtherDeclarations ==
  { [action |-> "update", subject |-> "X", conditions |-> Undefined],
    [action |-> "read", subject |-> "Y", conditions |-> CondPool[1]],
    [action |-> "manage", subject |-> "all", conditions |-> CondPool[3]] }

Declarations ==
  { [action |-> "read", subject |-> "X", conditions |-> c] : c \in ConditionChoices }
    \cup OtherDeclarations

Next ==
  \/ \E d \in Declarations : Can(d.action, d.subject, d.conditions)
  \/ \E d \in Declarations : Cannot(d.action, d.subject, d.conditions)
  \/ \E a \in Actions, s \in SubjectTypes : AccessibleBy(a, s)

Spec == Init /\ [][Next]_vars

(***************************************************************************)
(* The specification of the in-memory check: declarations, the filter of   *)
(* accessibleBy, then ability.can on a record for the same action and      *)
(* subject type.                                                           *)
(***************************************************************************)
\* ability.can(action, subject(subjectType, r))
AbilityCan(r) ==
  /\ access # NoAccess
  /\ verdict = "none"
  /\ record' = r
  /\ verdict' = abilityCan(rules, access.action, access.subjectType, r)
  /\ UNCHANGED <<rules, access, query, tree, built>>

\* The declarations whose conditions the in-memory check is run with.
CheckedDeclarations ==
  { [action |-> "read", subject |-> "X", conditions |-> c] :
      c \in {Undefined, CondPool[1], CondPool[3], CondPool[4], CondPool[5]} }
    \cup { [action |-> "manage", subject |-> "all", conditions |-> CondPool[3]] }

\* The records the in-memory check is run on.
CheckedRecords ==
  { Obj(<<E("id", Num(1))>>), Obj(<<E("id", Num(2))>>), Obj(<<E("id", Num(3))>>) }

NextCheck ==
  \/ \E d \in CheckedDeclarations : Can(d.action, d.subject, d.conditions)
  \/ \E d \in CheckedDeclarations : Cannot(d.action, d.subject, d.conditions)
  \/ \E a \in Actions, s \in SubjectTypes : AccessibleBy(a, s)
  \/ \E r \in CheckedRecords : AbilityCan(r)

SpecCheck == Init /\ [][NextCheck]_vars

\* The parser and the interpreter on their own: parser.parse(query), then
\* interpretDrizzleQuery(condition, record).
InitMatches ==
  /\ rules = <<>>
  /\ access = NoAccess
  /\ query \in QueryPool
  /\ record \in RecordPool
  /\ tree = NoTree
  /\ verdict = "none"
  /\ built = NoCall

\* condition = parser.parse(query)
ParseQuery ==
  /\ tree = NoTree
  /\ tree' = parse(query, "")
  /\ UNCHANGED <<rules, access, query, record, verdict, built>>

\* interpretDrizzleQuery(condition, record)
InterpretCondition ==
  /\ tree # NoTree
  /\ ~IsError(tree)
  /\ verdict = "none"
  /\ verdict' = interpretDrizzleQuery(tree, record)
  /\ UNCHANGED <<rules, access, query, record, tree, built>>

\* { items: helper(condition) } written as a filter: a call of the relation
\* helper some, every or none.
RelationHelper(name, condition) ==
  /\ built = NoCall
  /\ tree = NoTree
  /\ query = Obj(<<>>)
  /\ built' = [name |-> name, condition |-> condition,
               result |-> CASE name = "some" -> some(condition)
                            [] name = "every" -> every(condition)
                            [] OTHER -> none(condition)]
  /\ query' = Field("items", built'.result)
  /\ UNCHANGED <<rules, access, record, tree, verdict>>

NextMatches ==
  \/ ParseQuery
  \/ InterpretCondition
  \/ \E name \in {"some", "every", "none"}, condition \in HelperArguments :
       (name = "none" \/ condition # Undefined) /\ RelationHelper(name, condition)

SpecMatches == InitMatches /\ [][NextMatches]_vars

(***************************************************************************)
(* Properties                                                              *)
(***************************************************************************)
\* accessibleBy(ability, action)[subjectType] has been read.
Requested == access.kind = "read"

\* The rules relevant for the read, in declaration order.
Relevant == SelectRules(rules, access.action, access.subjectType)

Conditional(rule) == ~Falsy(rule.conditions)

\* A record satisfies a filter object: parsed and interpreted, it gives true.
Satisfies(q, r) == matches(q, r) = "true"

\* A record satisfies a rule: a rule without conditions holds of every record.
SatisfiesRule(rule, r) == Falsy(rule.conditions) \/ Satisfies(rule.conditions, r)

IdOf(r) == Lookup(r.o, "id")

\* One conditional allow rule, then one or more conditional deny rules.
AllowThenDenies(m) ==
  /\ Len(m) >= 2
  /\ ~m[1].inverted
  /\ \A i \in 2..Len(m) : m[i].inverted
  /\ \A i \in 1..Len(m) : Conditional(m[i])

\* C1: whenever no relevant rule exists or every relevant rule is a deny
\* rule, the read fails with a ForbiddenError carrying the requested action
\* and subject type, and no filter is returned.
C1_ForbiddenWithoutAllow ==
  (Requested /\ \A i \in 1..Len(Relevant) : Relevant[i].inverted)
    => access.result = Forbidden(access.action, access.subjectType)

\* C1 witness: a read of a policy whose relevant rules are conditional deny
\* rules only has failed.
C1_Witness ==
  /\ Requested
  /\ Len(Relevant) >= 1
  /\ \A i \in 1..Len(Relevant) : Relevant[i].inverted /\ Conditional(Relevant[i])
  /\ access.result.kind = "forbidden"

\* C2 (as claimed): with one allow rule A followed by deny rules D1..Dn, a
\* record satisfies the compiled filter iff it satisfies A and none of the
\* Di, whatever the shape of A.
C2_AllowNarrowedByDenies ==
  (Requested /\ AllowThenDenies(Relevant)) =>
    /\ access.result.kind = "filter"
    /\ \A r \in RecordPool :
         Satisfies(access.result.filter, r) <=>
           /\ Satisfies(Relevant[1].conditions, r)
           /\ \A i \in 2..Len(Relevant) : ~Satisfies(Relevant[i].conditions, r)

\* C3 (as claimed): for any policy, in any declaration order, a record
\* satisfies the compiled filter iff it satisfies some relevant allow rule
\* and no relevant deny rule.
C3_OrOfAllowsAndNotDenies ==
  Requested =>
    \A r \in RecordPool :
      (access.result.kind = "filter" /\ Satisfies(access.result.filter, r)) <=>
        /\ \E i \in 1..Len(Relevant) :
             ~Relevant[i].inverted /\ SatisfiesRule(Relevant[i], r)
        /\ \A i \in 1..Len(Relevant) :
             Relevant[i].inverted => ~SatisfiesRule(Relevant[i], r)

\* C4: when the only relevant rule is an allow rule without conditions, the
\* compiled filter is the empty object, and parsed it evaluates to true on
\* every record.
C4_UnconditionalAllowIsEmptyFilter ==
  (Requested /\ Len(Relevant) = 1 /\ ~Relevant[1].inverted /\ ~Conditional(Relevant[1]))
    => /\ access.result = Filter(Obj(<<>>))
       /\ \A r \in RecordPool : matches(access.result.filter, r) = "true"

\* C4 witness: such a policy has been read and gave a filter.
C4_Witness ==
  /\ Requested
  /\ Len(Relevant) = 1
  /\ ~Relevant[1].inverted
  /\ ~Conditional(Relevant[1])
  /\ access.result.kind = "filter"

\* C5 (as claimed): with two or more conditional allow rules and no deny
\* rule, a record matches the compiled filter iff it satisfies one of the
\* conditions; for {id: 1} and {id: 2} the filter matches the records with
\* id 1 and id 2 and rejects id 3.
C5_AllowsAreDisjunction ==
  (/\ Requested
   /\ Len(Relevant) >= 2
   /\ \A i \in 1..Len(Relevant) : ~Relevant[i].inverted /\ Conditional(Relevant[i]))
    => /\ access.result.kind = "filter"
       /\ \A r \in RecordPool :
            Satisfies(access.result.filter, r) <=>
              \E i \in 1..Len(Relevant) : Satisfies(Relevant[i].conditions, r)
       /\ (/\ Len(Relevant) = 2
           /\ Relevant[1].conditions = Field("id", Num(1))
           /\ Relevant[2].conditions = Field("id", Num(2)))
            => \A r \in RecordPool :
                 matches(access.result.filter, r) = B(IdOf(r) \in {Num(1), Num(2)})

\* The keys of an entry list.
KeysOf(entries) == {entries[i].key : i \in 1..Len(entries)}

\* C6 (as claimed): with one conditional allow rule A and conditional deny
\* rules declared after it, the compiled filter has every entry of A at its
\* top level, no other key than AND, and under AND exactly one {NOT: Di} per
\* deny rule (A and the Di in the emitted spelling, "$" prefixes stripped);
\* for allow {id: 1} and deny {id: 2} it is {id: 1, AND: [{NOT: {id: 2}}]}.
C6_FlatAllowPlusNotList ==
  (Requested /\ AllowThenDenies(Relevant)) =>
    /\ access.result.kind = "filter"
    /\ LET f == access.result.filter.o
           A == normalizeDrizzleConditions(Relevant[1].conditions).o
           nots == Lookup(f, "AND")
       IN /\ \A i \in 1..Len(A) : Lookup(f, A[i].key) = A[i].val
          /\ KeysOf(f) \subseteq KeysOf(A) \cup {"AND"}
          /\ nots.t = "arr"
          /\ Len(nots.a) = Len(Relevant) - 1
          /\ \A i \in 2..Len(Relevant) :
               \E j \in 1..Len(nots.a) :
                 nots.a[j] = normalizeDrizzleConditions(Field("NOT", Relevant[i].conditions))
    /\ (/\ Len(Relevant) = 2
        /\ Relevant[1].conditions = Field("id", Num(1))
        /\ Relevant[2].conditions = Field("id", Num(2)))
         => access.result.filter =
              Obj(<<E("id", Num(1)), E("AND", Arr(<<Field("NOT", Field("id", Num(2)))>>))>>)

\* The condition merged from the rules' conditions as they were written:
\* AND(OR(allow conditions), AND(NOT deny conditions)), each part present
\* when the fold kept rules of its kind.
MergedCondition(q) ==
  LET allows == [i \in 1..Len(q.or) |-> parse(q.or[i], "")]
      denies == [i \in 1..Len(q.and) |-> parse(q.and[i], "")]
  IN CompoundCondition("AND",
       (IF q.hasOr THEN <<CompoundCondition("OR", allows)>> ELSE <<>>)
         \o (IF q.hasAnd THEN <<CompoundCondition("AND", denies)>> ELSE <<>>))

\* Every condition the fold kept parses.
OriginalsParse(q) ==
  /\ \A i \in 1..Len(q.or) : ~IsError(parse(q.or[i], ""))
  /\ \A i \in 1..Len(q.and) : ~IsError(parse(q.and[i], ""))

\* C7 (as claimed): the emitted filter parses, and on every record the
\* parsed tree evaluates to the same boolean as the condition merged from
\* the rules' original conditions.
C7_RoundTrip ==
  LET q == rulesToQuery(rules, access.action, access.subjectType) IN
  (Requested /\ access.result.kind = "filter" /\ OriginalsParse(q)) =>
    /\ ~IsError(parse(access.result.filter, ""))
    /\ \A r \in RecordPool :
         /\ IsBoolean(matches(access.result.filter, r))
         /\ matches(access.result.filter, r) = interpretDrizzleQuery(MergedCondition(q), r)

RECURSIVE HasRawKey(_)
\* The filter object holds a RAW entry.
HasRawKey(v) ==
  CASE v.t = "obj" ->
         \E i \in 1..Len(v.o) : v.o[i].key = "RAW" \/ HasRawKey(v.o[i].val)
    [] v.t = "arr" -> \E i \in 1..Len(v.a) : HasRawKey(v.a[i])
    [] OTHER -> FALSE

\* The name of an array index as a path element.
IndexKey(i) == <<"0", "1", "2", "3">>[i]

RECURSIVE RawEntries(_, _)
\* The RAW entries of a filter object: each with the path of keys and array
\* indexes that leads to it, and its payload.
RawEntries(v, path) ==
  CASE v.t = "obj" ->
         UNION { IF v.o[i].key = "RAW"
                   THEN {<<Append(path, "RAW"), v.o[i].val>>}
                   ELSE RawEntries(v.o[i].val, Append(path, v.o[i].key))
                 : i \in 1..Len(v.o) }
    [] v.t = "arr" ->
         UNION { RawEntries(v.a[i], Append(path, IndexKey(i))) : i \in 1..Len(v.a) }
    [] OTHER -> {}

\* C11 (as claimed): for a policy of one allow rule whose conditions hold a
\* RAW entry (at the top level, inside an AND list or under a field key),
\* the compiled filter holds the RAW entries at the same positions, each
\* with the payload the caller supplied, a function or an SQL object alike.
C11_RawPayloadUntouched ==
  (/\ Requested
   /\ Len(Relevant) = 1
   /\ ~Relevant[1].inverted
   /\ Conditional(Relevant[1])
   /\ HasRawKey(Relevant[1].conditions))
    => /\ access.result.kind = "filter"
       /\ RawEntries(access.result.filter, <<>>)
            = RawEntries(Relevant[1].conditions, <<>>)

(***************************************************************************)
(* Properties of the parser and the interpreter (SpecMatches)              *)
(***************************************************************************)
Parsed == tree # NoTree /\ ~IsError(tree)

Interpreted == verdict # "none"

\* The query is {field: {op: operand}}.
IsSingleOperator(q) ==
  /\ q.t = "obj"
  /\ Len(q.o) = 1
  /\ q.o[1].val.t = "obj"
  /\ Len(q.o[1].val.o) = 1

OperatorOf(q) == q.o[1].val.o[1].key

OperandOf(q) == q.o[1].val.o[1].val

FieldOf(q) == q.o[1].key

\* The inverted operator of each base operator.
InvertedOperator(op) ==
  CASE op = "in" -> "notIn"
    [] op = "like" -> "notLike"
    [] op = "ilike" -> "notIlike"
    [] op = "is" -> "isNot"
    [] op = "some" -> "none"
    [] OTHER -> op

\* C8 (as claimed): for a base operator with a valid operand, evaluating
\* {field: {invertedOp: v}} gives the boolean negation of evaluating
\* {field: {baseOp: v}}.
C8_InvertedIsNegation ==
  (/\ Interpreted
   /\ IsSingleOperator(query)
   /\ OperatorOf(query) \in {"in", "like", "ilike", "is", "some"})
    => LET inv == matches(Op(FieldOf(query), InvertedOperator(OperatorOf(query)),
                             OperandOf(query)), record)
       IN IsBoolean(verdict) /\ IsBoolean(inv) /\ inv = Negate(verdict)

RECURSIVE HasRawLeaf(_)
\* The condition holds a RAW leaf.
HasRawLeaf(c) ==
  CASE c.k = "compound" -> \E i \in 1..Len(c.children) : HasRawLeaf(c.children[i])
    [] c.k = "field" ->
         \/ c.operator = "RAW"
         \/ (c.operator \in {"every", "some", "is"} /\ HasRawLeaf(c.value))
    [] OTHER -> FALSE

StringOperators == {"startsWith", "endsWith", "contains"}

\* The query is {field: {op: operand}} or that with a mode entry before or
\* after op, for a string operator op and a string operand.
IsStringOperatorQuery(q) ==
  /\ q.t = "obj"
  /\ Len(q.o) = 1
  /\ q.o[1].val.t = "obj"
  /\ LET ops == q.o[1].val.o IN
       /\ Len(ops) \in {1, 2}
       /\ Cardinality({i \in 1..Len(ops) : ops[i].key \in StringOperators}) = 1
       /\ \A i \in 1..Len(ops) :
            \/ ops[i].key \in StringOperators /\ ops[i].val.t = "str"
            \/ ops[i].key = "mode" /\ ops[i].val \in POSSIBLE_MODES

\* The string operator entry of such a query.
StringEntry(q) ==
  LET ops == q.o[1].val.o
  IN ops[CHOOSE i \in 1..Len(ops) : ops[i].key \in StringOperators]

\* What the claim expects of operator op with operand p on the string s.
ExpectedStringMatch(op, insensitive, p, s) ==
  LET pp == IF insensitive THEN toLowerCase(p) ELSE p
      ss == IF insensitive THEN toLowerCase(s) ELSE s
  IN CASE op = "startsWith" -> SubSeq(ss, 1, Len(pp)) = pp /\ Len(pp) <= Len(ss)
       [] op = "endsWith" ->
            Len(pp) <= Len(ss) /\ SubSeq(ss, Len(ss) - Len(pp) + 1, Len(ss)) = pp
       [] OTHER -> \E i \in 1..(Len(ss) - Len(pp) + 1) : SubSeq(ss, i, i + Len(pp) - 1) = pp

\* C12: with mode: "insensitive" next to startsWith, endsWith or contains,
\* in either key order, the parsed condition is one leaf and matches a
\* record iff the lower-cased field value starts with, ends with or
\* includes the lower-cased operand; with mode absent or "default" the
\* comparison is case-sensitive; a field that holds no string (nor, for
\* contains, an array) is no match.
C12_ModeInsensitive ==
  (Interpreted /\ IsStringOperatorQuery(query)) =>
    LET entry == StringEntry(query)
        insensitive == Lookup(query.o[1].val.o, "mode") = Insensitive
        v == get(record, FieldOf(query))
    IN /\ tree.k = "field"
       /\ tree.field = FieldOf(query)
       /\ tree.value = entry.val
       /\ v.t = "str" =>
            verdict = B(ExpectedStringMatch(entry.key, insensitive, entry.val.s, v.s))
       /\ v.t \notin {"str", "arr"} => verdict # "true"

\* C12 witness: {name: {mode: "insensitive", contains: "al"}} has matched
\* the record named "ALPHA".
C12_Witness ==
  /\ Interpreted
  /\ query = Obj(<<E("name", Obj(<<E("mode", Insensitive), E("contains", S_al)>>))>>)
  /\ get(record, "name") = S_ALPHA
  /\ verdict = "true"

\* C13 (as claimed): on a field holding a collection, every is true iff
\* the field is a non-empty array whose elements all satisfy the nested
\* filter, some iff it is an array with a satisfying element, and none is
\* the negation of some; on an empty array every and some are false and
\* none is true.
C13_EverySomeNone ==
  (/\ Interpreted
   /\ IsSingleOperator(query)
   /\ OperatorOf(query) \in {"every", "some", "none"})
    => LET items == get(record, FieldOf(query))
           nested == OperandOf(query)
           all == \A i \in 1..Len(items.a) : Satisfies(nested, items.a[i])
           any == \E i \in 1..Len(items.a) : Satisfies(nested, items.a[i])
       IN verdict =
            CASE OperatorOf(query) = "every" ->
                   B(IsArray(items) /\ Len(items.a) > 0 /\ all)
              [] OperatorOf(query) = "some" -> B(IsArray(items) /\ any)
              [] OTHER -> B(~(IsArray(items) /\ any))

\* The operator objects of the query's fields that hold a key which is no
\* instruction name.
UnknownKeyEntries(q) ==
  {i \in 1..Len(q.o) :
     /\ q.o[i].key \notin InstructionNames
     /\ q.o[i].val.t = "obj"
     /\ \E j \in 1..Len(q.o[i].val.o) : q.o[i].val.o[j].key \notin InstructionNames}

C15_ComparableOperandOnly ==
  (/\ tree # NoTree
   /\ IsSingleOperator(query)
   /\ OperatorOf(query) \in {"lt", "lte", "gt", "gte"})
    => IF OperandOf(query).t \in {"str", "num", "date"}
         THEN tree = FieldCondition(OperatorOf(query), FieldOf(query), OperandOf(query))
         ELSE tree = Thrown("ParsingQueryError", OperatorOf(query))

\* C16 (as claimed): {field: {isSet: b}} matches a record iff (record[field]
\* is not undefined) equals b; {maybe: {isSet: false}} matches a record
\* without a field maybe.
C16_IsSetComparesOperand ==
  (/\ Interpreted
   /\ IsSingleOperator(query)
   /\ OperatorOf(query) = "isSet"
   /\ OperandOf(query).t = "bool")
    => verdict = B((get(record, FieldOf(query)) # Undefined) = OperandOf(query).b)

\* C17 (as claimed): the relation helpers denote different conditions: for
\* the same argument c, every(c) and none(c) do not return the condition
\* some(c) returns.
C17_HelpersDiffer ==
  (built.name \in {"every", "none"} /\ built.condition # Undefined)
    => built.result # some(built.condition)

\* The place in Relevant of the last declared rule without conditions, 0
\* when every relevant rule has conditions.
LastUnconditional ==
  LET S == {i \in 1..Len(Relevant) : ~Conditional(Relevant[i])} IN
  IF S = {} THEN 0 ELSE CHOOSE i \in S : \A j \in S : j <= i

\* The relevant rules declared after the k-th.
DeclaredAfter(k) == SubSeq(Relevant, k + 1, Len(Relevant))

RECURSIVE NotOfDenies(_)
\* {NOT: D} for every deny rule of rs, the last declared first.
NotOfDenies(rs) ==
  IF rs = <<>> THEN <<>>
  ELSE IF Head(rs).inverted
    THEN Append(NotOfDenies(Tail(rs)), Field("NOT", Head(rs).conditions))
  ELSE NotOfDenies(Tail(rs))

Checked == access # NoAccess /\ verdict # "none"

\* C18 (as claimed): the record satisfies the filter accessibleBy compiled
\* exactly when ability.can returns true for the same action, subject type
\* and record; where accessibleBy is Forbidden, ability.can is not true.
C18_FilterAgreesWithCan ==
  Checked =>
    IF access.result.kind = "forbidden" THEN verdict # "true"
    ELSE (matches(access.result.filter, record) = "true") <=> (verdict = "true")

\* A condition, as opposed to a value of the filter object.
IsCondition(v) == "k" \in DOMAIN v

RECURSIVE NotArities(_)
\* The numbers of children of the NOT compound nodes of a condition tree, at
\* every depth, the conditions held by relation nodes included.
NotArities(c) ==
  IF c.k = "compound"
    THEN (IF c.operator = "NOT" THEN {Len(c.children)} ELSE {})
           \cup UNION {NotArities(c.children[i]) : i \in 1..Len(c.children)}
  ELSE IF c.k = "field" /\ IsCondition(c.value) THEN NotArities(c.value)
  ELSE {}

RECURSIVE HasNotList(_)
\* A filter object gives NOT a list, at some depth.
HasNotList(v) ==
  IF v.t = "arr" THEN \E i \in 1..Len(v.a) : HasNotList(v.a[i])
  ELSE IF v.t = "obj"
    THEN \E i \in 1..Len(v.o) :
           \/ v.o[i].key = "NOT" /\ IsArray(v.o[i].val)
           \/ HasNotList(v.o[i].val)
  ELSE FALSE

\* The conditions parsed from the keys of the query: the tree itself, or the
\* children of the "and" that joins them.
TopConditions ==
  IF tree.k = "compound" /\ tree.operator = "and" THEN tree.children ELSE <<tree>>

RECURSIVE HasDollarKey(_)
\* Some key of the filter object, at some depth, starts with "$".
HasDollarKey(v) ==
  IF v.t = "arr" THEN \E i \in 1..Len(v.a) : HasDollarKey(v.a[i])
  ELSE IF v.t = "obj"
    THEN \E i \in 1..Len(v.o) :
           v.o[i].key \in DollarKeys \/ HasDollarKey(v.o[i].val)
  ELSE FALSE

\* C21 (as claimed): no key of a filter emitted by accessibleBy, at any
\* depth, starts with "$".
C21_NoDollarKey ==
  (Requested /\ access.result.kind = "filter")
    => ~HasDollarKey(access.result.filter)

\* The unprefixed operator a "$"-prefixed alias stands for.
PlainOperator(op) == IF op = "$nin" THEN "notIn" ELSE Substring1(op)

\* C22 (as claimed): an accepted {field: {"$"+op: v}} parses to the tree of
\* {field: {op: v}} ($nin to the tree of notIn), and both evaluate to the
\* same boolean on the record.
C22_AliasSameAsPlain ==
  (IsSingleOperator(query) /\ OperatorOf(query) \in DollarKeys) =>
    LET plain == Op(FieldOf(query), PlainOperator(OperatorOf(query)),
                    OperandOf(query))
    IN /\ Parsed => tree = parse(plain, "")
       /\ Interpreted => (IsBoolean(verdict) /\ verdict = matches(plain, record))

\* A string, number, boolean or null.
IsScalar(v) == v.t \in {"str", "num", "bool", "null"}

\* The query is {f: v} with a scalar v.
IsBareValue(q) == q.t = "obj" /\ Len(q.o) = 1 /\ IsScalar(q.o[1].val)

\* The query is {f: {eq: v}} with a scalar v.
IsExplicitEq(q) ==
  IsSingleOperator(q) /\ OperatorOf(q) = "eq" /\ IsScalar(OperandOf(q))

\* C23 (as claimed): {f: v} and {f: {eq: v}} with a scalar v parse to the
\* same tree, the single leaf (eq, f, v), and evaluating it on a record is
\* true exactly when the record's f equals v.
C23_BareValueIsEq ==
  (IsBareValue(query) \/ IsExplicitEq(query)) =>
    LET f == FieldOf(query)
        v == IF IsBareValue(query) THEN query.o[1].val ELSE OperandOf(query)
    IN /\ tree # NoTree =>
            /\ tree = FieldCondition("eq", f, v)
            /\ tree = parse(Field(f, v), "")
            /\ tree = parse(Op(f, "eq", v), "")
       /\ Interpreted => verdict = B(StrictEq(get(record, f), v))

\* The operators of an operator object as operator objects of their own:
\* every one alone, or every one but mode together with the mode written
\* beside it.
OperatorParts(value, keepMode) ==
  IF keepMode
    THEN { IF HasKey(value.o, "mode")
             THEN Obj(<<value.o[j], E("mode", Lookup(value.o, "mode"))>>)
             ELSE Obj(<<value.o[j]>>) :
           j \in {j \in 1..Len(value.o) : value.o[j].key # "mode"} }
  ELSE { Obj(<<value.o[j]>>) : j \in 1..Len(value.o) }

\* The single conditions of a filter object, each as a filter object.
FilterParts(q, keepMode) ==
  UNION { IF q.o[i].key \notin InstructionNames /\ hasOperators(q.o[i].val)
            THEN { Field(q.o[i].key, p) : p \in OperatorParts(q.o[i].val, keepMode) }
            ELSE { Obj(<<q.o[i]>>) } :
          i \in 1..Len(q.o) }

\* The filter object has several keys, or a field with several operators.
HasSeveralParts(q) ==
  \/ Len(q.o) > 1
  \/ \E i \in 1..Len(q.o) :
       /\ q.o[i].key \notin InstructionNames
       /\ hasOperators(q.o[i].val)
       /\ Len(q.o[i].val.o) > 1

\* C24 (as claimed): a filter object with several parts evaluates to true
\* exactly when every single field/operator condition of it, parsed alone,
\* evaluates to true.
C24_ConjunctionOfParts ==
  (Interpreted /\ HasSeveralParts(query)) =>
    ((verdict = "true")
       <=> \A p \in FilterParts(query, FALSE) : matches(p, record) = "true")

\* C24 (amended): the same, where mode is no condition of its own: each
\* operator written beside a mode is taken together with that mode.
C24_ConjunctionOfPartsWithMode ==
  (Interpreted /\ HasSeveralParts(query)) =>
    ((verdict = "true")
       <=> \A p \in FilterParts(query, TRUE) : matches(p, record) = "true")

\* A field with two operators was evaluated to true, and so was each of the
\* two alone.
C24_Witness ==
  /\ Interpreted
  /\ query = Obj(<<E("id", Obj(<<E("gte", Num(1)), E("lt", Num(3))>>))>>)
  /\ verdict = "true"
  /\ matches(Op("id", "gte", Num(1)), record) = "true"
  /\ matches(Op("id", "lt", Num(3)), record) = "true"

\* C25 (as claimed): {f: {not: v}} with a scalar v matches exactly when
\* {f: v} does not; {f: {not: Q}} with an operator object Q parses to one NOT
\* over the field-scoped parse of Q and matches exactly when {f: Q} does
\* not; an array or a plain object without operators is rejected with a
\* ParsingQueryError.
C25_NotNegatesOperand ==
  (IsSingleOperator(query) /\ OperatorOf(query) = "not") =>
    LET f == FieldOf(query)
        v == OperandOf(query)
        base == matches(Field(f, v), record)
    IN IF IsArray(v) \/ (isPlainObject(v) /\ ~hasOperators(v))
         THEN tree # NoTree => tree = Thrown("ParsingQueryError", "not")
       ELSE IF isPlainObject(v)
         THEN /\ tree # NoTree => tree = CompoundCondition("NOT", <<parse(v, f)>>)
              /\ Interpreted =>
                   (IsBoolean(verdict) /\ IsBoolean(base) /\ verdict = Negate(base))
       ELSE /\ tree # NoTree => ~IsError(tree)
            /\ Interpreted =>
                 (IsBoolean(verdict) /\ IsBoolean(base) /\ verdict = Negate(base))

RECURSIVE OperatorNames(_)
\* The operator names of the nodes of a condition tree, at every depth.
OperatorNames(c) ==
  IF c.k = "compound"
    THEN {c.operator}
           \cup UNION {OperatorNames(c.children[i]) : i \in 1..Len(c.children)}
  ELSE IF c.k = "field"
    THEN {c.operator}
           \cup (IF IsCondition(c.value) THEN OperatorNames(c.value) ELSE {})
  ELSE {}

\* C26 (as claimed): every operator name of a node of a parsed tree has a
\* handler registered in the interpreter.
C26_EveryOperatorHasHandler ==
  Parsed => OperatorNames(tree) \subseteq InterpreterNames

RECURSIVE Operands(_, _)
\* The operands of a filter object: every value that is no plain object and
\* no list of objects, with the path of keys (without "$" prefix) and list
\* indexes that leads to it.
Operands(v, path) ==
  IF v.t = "obj"
    THEN UNION { Operands(v.o[i].val, Append(path, Substring1(v.o[i].key)))
                 : i \in 1..Len(v.o) }
  ELSE IF v.t = "arr" /\ \E i \in 1..Len(v.a) : IsObjectLike(v.a[i])
    THEN UNION { Operands(v.a[i], Append(path, IndexKey(i))) : i \in 1..Len(v.a) }
  ELSE {<<path, v>>}

\* C27 (as claimed): for a policy of one allow rule with conditions, the
\* compiled filter holds at every position the operand the caller wrote
\* there: a scalar, a list, a Date or another non-plain object.
C27_OperandsUnchanged ==
  (/\ Requested
   /\ Len(Relevant) = 1
   /\ ~Relevant[1].inverted
   /\ Conditional(Relevant[1]))
    => /\ access.result.kind = "filter"
       /\ Operands(access.result.filter, <<>>)
            = Operands(Relevant[1].conditions, <<>>)

\* C28 (as claimed): {f: {eq: v}} with an array or a plain object v, an
\* operator object included, and {f: v} for a field f with an array or an
\* object without operators, are rejected with a ParsingQueryError.
C28_EqRejectsArraysAndObjects ==
  LET rejected == tree # NoTree => tree = Thrown("ParsingQueryError", "eq") IN
  /\ (/\ IsSingleOperator(query)
      /\ OperatorOf(query) = "eq"
      /\ (IsArray(OperandOf(query)) \/ isPlainObject(OperandOf(query))))
       => rejected
  /\ (/\ Len(query.o) = 1
      /\ query.o[1].key \notin InstructionNames
      /\ (\/ IsArray(query.o[1].val)
          \/ (isPlainObject(query.o[1].val) /\ ~hasOperators(query.o[1].val))))
       => rejected

\* C29 (as claimed): {f: {ne: v}} is rejected with a ParsingQueryError when
\* v is an array or a plain object; otherwise it parses to the leaf
\* (notEquals, f, v), which matches a record exactly when its f differs
\* from v.
C29_NeValidatesLikeEq ==
  (IsSingleOperator(query) /\ OperatorOf(query) = "ne") =>
    LET f == FieldOf(query)
        v == OperandOf(query)
    IN IF IsArray(v) \/ isPlainObject(v)
         THEN tree # NoTree => tree = Thrown("ParsingQueryError", "ne")
       ELSE /\ tree # NoTree => tree = FieldCondition("notEquals", f, v)
            /\ Interpreted => verdict = B(~StrictEq(get(record, f), v))

C9_EvaluationIsTotal ==
  (Interpreted /\ ~HasRawLeaf(tree)) => IsBoolean(verdict)

\* C10 (as claimed): a filter with a RAW entry is accepted by the parser,
\* the RAW leaf carries the payload as it was written, and the parsed
\* condition evaluates to true on every record.
C10_RawIsTrue ==
  (HasRawKey(query) /\ tree # NoTree) =>
    /\ ~IsError(tree)
    /\ (IsSingleOperator(query) /\ OperatorOf(query) = "RAW")
         => tree = FieldCondition("RAW", "RAW", OperandOf(query))
    /\ Interpreted => verdict = "true"

====
